---- MODULE Spec2Model ----
(***************************************************************************)
(* Model of the runas crate: the Command builder (src/src/lib.rs), the     *)
(* Unix launch through sudo (src/src/impl_unix.rs) and the Windows launch  *)
(* through ShellExecuteExW (src/src/impl_windows.rs).                      *)
(*                                                                         *)
(* Strings are sequences of characters.  Characters are named by short     *)
(* strings: "SP" is a space, "TAB" a tab, "DQ" a double quote, "BS" a      *)
(* backslash, "ILL" an unpaired surrogate of a Windows OsString, "REPL"    *)
(* U+FFFD, "NUL" the wide terminator; every other name is itself.          *)
(***************************************************************************)
EXTENDS Integers, Sequences, FiniteSets, TLC

VARIABLES
    platform,   \* build-time target: "unix" or "windows" (lib.rs 39-42)
    cmd,        \* the Command struct (lib.rs 103-110)
    launches,   \* number of spawn()/status() calls made on cmd so far
    lastOp,     \* "spawn" or "status" when that call has just returned
    env,        \* what the OS answered during that call
    calls,      \* OS primitives that call invoked, in order
    argv,       \* argv that call handed to process::Command::spawn
    sei,        \* SHELLEXECUTEINFOW that call handed to ShellExecuteExW
    result,     \* value that call returned
    comOpen,    \* COM sessions this thread opened and has not yet closed
    encPc,      \* encoder pipeline: "input", "encoded" or "parsed"
    osArg,      \* encoder pipeline: one OsString argument
    encoded,    \* encoder pipeline: parameter string built for <<osArg>>
    tokens      \* encoder pipeline: arguments the child's tokenizer recovers

vars == <<platform, cmd, launches, lastOp, env, calls, argv, sei, result,
          comOpen, encPc, osArg, encoded, tokens>>

launchVars == <<platform, cmd, launches, lastOp, env, calls, argv, sei,
                result, comOpen>>

encVars == <<encPc, osArg, encoded, tokens>>

----------------------------------------------------------------------------
(* Bounds *)

MaxArgs == 2

MaxLaunches == 2

MaxLen == 3

----------------------------------------------------------------------------
(* Characters and strings *)

SP == "SP"

TAB == "TAB"

DQ == "DQ"

BS == "BS"

ILL == "ILL"

REPL == "REPL"

NUL == "NUL"

TextChars == {"a", SP, TAB, DQ, BS}

OsChars == TextChars \cup {ILL}

StringsUpTo(chars, n) == UNION {[1..k -> chars] : k \in 0..n}

SeqsUpTo(S, n) == UNION {[1..k -> S] : k \in 0..n}

----------------------------------------------------------------------------
(* Windows argument encoder, impl_windows.rs 12-31 *)

\* arg.to_string_lossy(): an unpaired surrogate becomes U+FFFD, valid text
\* is returned as it is.
to_string_lossy(s) == [i \in 1..Len(s) |-> IF s[i] = ILL THEN REPL ELSE s[i]]

\* arg.find(&[' ', '\t', '"'][..]).is_none()
find_is_none(arg) == \A i \in 1..Len(arg) : arg[i] \notin {SP, TAB, DQ}

\* mutation of EscapeChar: a double quote is emitted without its backslash
EscapeChar_bareQuote(c) ==
    IF c = BS THEN <<BS, BS>> ELSE <<c>>

\* the match on c inside the quoted body
EscapeChar(c) ==
    IF c = BS THEN <<BS, BS>>
    ELSE IF c = DQ THEN <<BS, DQ>>
    ELSE <<c>>

RECURSIVE EscapeBody(_)
\* for c in arg.chars() { ... }
EscapeBody(arg) ==
    IF arg = <<>> THEN <<>>
    ELSE EscapeChar(Head(arg)) \o EscapeBody(Tail(arg))

\* what one iteration of the loop pushes after the leading space
EscapeArg(arg) ==
    IF Len(arg) = 0 THEN <<DQ, DQ>>
    ELSE IF find_is_none(arg) THEN arg
    ELSE <<DQ>> \o EscapeBody(arg) \o <<DQ>>

RECURSIVE BuildParams_spaceAfter(_)
\* mutation of BuildParams: the space is pushed after the argument
BuildParams_spaceAfter(args) ==
    IF args = <<>> THEN <<>>
    ELSE EscapeArg(to_string_lossy(Head(args))) \o <<SP>>
             \o BuildParams_spaceAfter(Tail(args))

RECURSIVE BuildParams(_)
\* let mut params = String::new(); for arg in cmd.args.iter() { ... }
BuildParams(args) ==
    IF args = <<>> THEN <<>>
    ELSE <<SP>> \o EscapeArg(to_string_lossy(Head(args)))
              \o BuildParams(Tail(args))

\* OsStr::new(..).encode_wide().chain(Some(0)).collect()
encode_wide_nul(s) == s \o <<NUL>>

----------------------------------------------------------------------------
(* The command-line tokenizer of the launched Windows program, applied to  *)
(* the parameter string: the rules Microsoft documents for the C runtime   *)
(* and CommandLineToArgvW.  Arguments are separated by spaces and tabs; a  *)
(* double quote opens or closes a quoted part; 2n backslashes before a     *)
(* double quote give n backslashes and the quote acts as a delimiter;      *)
(* 2n+1 backslashes before a double quote give n backslashes and a literal *)
(* quote; backslashes not followed by a double quote are literal.          *)

RECURSIVE CountBackslashes(_)
CountBackslashes(s) ==
    IF s # <<>> /\ Head(s) = BS THEN 1 + CountBackslashes(Tail(s)) ELSE 0

Backslashes(n) == [i \in 1..n |-> BS]

Drop(s, n) == SubSeq(s, n + 1, Len(s))

RECURSIVE Tokenize(_, _, _, _)
Tokenize(s, inQuote, cur, started) ==
    IF s = <<>> THEN (IF started THEN <<cur>> ELSE <<>>)
    ELSE IF Head(s) = BS THEN
        LET n == CountBackslashes(s)
            rest == Drop(s, n)
        IN  IF rest # <<>> /\ Head(rest) = DQ
            THEN IF n % 2 = 1
                 THEN Tokenize(Tail(rest), inQuote,
                               cur \o Backslashes(n \div 2) \o <<DQ>>, TRUE)
                 ELSE Tokenize(rest, inQuote,
                               cur \o Backslashes(n \div 2), TRUE)
            ELSE Tokenize(rest, inQuote, cur \o Backslashes(n), TRUE)
    ELSE IF Head(s) = DQ THEN Tokenize(Tail(s), ~inQuote, cur, TRUE)
    ELSE IF Head(s) \in {SP, TAB} /\ ~inQuote THEN
        (IF started THEN <<cur>> ELSE <<>>)
            \o Tokenize(Tail(s), FALSE, <<>>, FALSE)
    ELSE Tokenize(Tail(s), inQuote, Append(cur, Head(s)), TRUE)

ParseCmdLine(params) == Tokenize(params, FALSE, <<>>, FALSE)

----------------------------------------------------------------------------
(* Windows API values used by runas_impl *)

NULL == 0

HPROCESS == 1

WIN_FALSE == 0

WIN_TRUE == 1

S_OK == 0

S_FALSE == 1

RPC_E_CHANGED_MODE == -2147417850

SW_HIDE == 0

SW_NORMAL == 1

WAIT_OBJECT_0 == 0

\* 0xFFFFFFFF, written as the 32-bit two's complement value
WAIT_FAILED == -1

STILL_ACTIVE == 259

\* winerror SUCCEEDED(hr): hr >= 0
SUCCEEDED(hr) == hr >= 0

----------------------------------------------------------------------------
(* The Command struct and its builder methods, lib.rs 103-314 *)

Programs == {<<"p">>, <<"-", "k">>}

ArgPool == {<<>>, <<"a", SP, "b">>}

Dirs == {<<"d">>}

None == [some |-> FALSE, val |-> <<>>]

Some(x) == [some |-> TRUE, val |-> x]

\* Command::new(program)
new(program) ==
    [command |-> program, args |-> <<>>, current_dir |-> None,
     hide |-> FALSE, gui |-> FALSE, force_prompt |-> TRUE]

\* Command::arg
arg(c, a) == [c EXCEPT !.args = Append(@, a)]

RECURSIVE args(_, _)
\* Command::args: for arg in args { self.arg(arg); }
args(c, as) ==
    IF as = <<>> THEN c ELSE args(arg(c, Head(as)), Tail(as))

\* Command::current_dir
current_dir(c, dir) == [c EXCEPT !.current_dir = Some(dir)]

\* Command::show
show(c, val) == [c EXCEPT !.hide = ~val]

\* Command::gui
gui(c, val) == [c EXCEPT !.gui = val]

\* Command::disable_force_prompt
disable_force_prompt(c) == [c EXCEPT !.force_prompt = FALSE]

----------------------------------------------------------------------------
(* Values a launch call returns: io::Result<Child>, io::Result<ExitStatus> *)

NoResult == [kind |-> "none", code |-> 0, err |-> "none"]

OkChild == [kind |-> "Child", code |-> 0, err |-> "none"]

OkExitStatus(code) == [kind |-> "ExitStatus", code |-> code, err |-> "none"]

Err(e) == [kind |-> "Err", code |-> 0, err |-> e]

----------------------------------------------------------------------------
(* What the operating system answers during one launch call.  Answers to   *)
(* primitives the call never reaches keep the value of NoAnswers.          *)

NoAnswers ==
    [sudoOnPath |-> FALSE, spawnOk |-> FALSE, childWaitOk |-> FALSE,
     hr |-> S_OK, lpVerb |-> "runas", shellRet |-> WIN_FALSE,
     hProcess |-> NULL, waitRet |-> WAIT_OBJECT_0, gecpRet |-> WIN_FALSE,
     exitCode |-> 0]

ExitCodes == {0, 1}

\* which::which("sudo"), process::Command::spawn, Child::wait
UnixAnswers(waits) ==
    {[NoAnswers EXCEPT !.sudoOnPath = FALSE]}
    \cup {[NoAnswers EXCEPT !.sudoOnPath = TRUE, !.spawnOk = FALSE]}
    \cup (IF waits
          THEN {[NoAnswers EXCEPT !.sudoOnPath = TRUE, !.spawnOk = TRUE,
                                  !.childWaitOk = FALSE]}
               \cup {[NoAnswers EXCEPT !.sudoOnPath = TRUE, !.spawnOk = TRUE,
                                       !.childWaitOk = TRUE, !.exitCode = x]
                     : x \in ExitCodes}
          ELSE {[NoAnswers EXCEPT !.sudoOnPath = TRUE, !.spawnOk = TRUE]})

\* CoInitializeEx, the read through the lpVerb pointer, ShellExecuteExW,
\* WaitForSingleObject, GetExitCodeProcess.  lpVerb points into a Vec that
\* is dropped at the end of the statement building sei (line 60), so what
\* ShellExecuteExW reads there is "runas" or whatever replaced it.  A process
\* whose wait failed has not been seen to exit: its exit code reads
\* STILL_ACTIVE.
WindowsAnswers ==
    LET start == {[NoAnswers EXCEPT !.hr = h, !.lpVerb = v]
                  : h \in {S_OK, S_FALSE, RPC_E_CHANGED_MODE},
                    v \in {"runas", "dangling"}}
    IN  UNION {
          {[a EXCEPT !.shellRet = WIN_FALSE]}
          \cup {[a EXCEPT !.shellRet = WIN_TRUE, !.hProcess = NULL]}
          \cup {[a EXCEPT !.shellRet = WIN_TRUE, !.hProcess = HPROCESS,
                          !.waitRet = w, !.gecpRet = WIN_FALSE]
                : w \in {WAIT_OBJECT_0, WAIT_FAILED}}
          \cup {[a EXCEPT !.shellRet = WIN_TRUE, !.hProcess = HPROCESS,
                          !.waitRet = WAIT_OBJECT_0, !.gecpRet = WIN_TRUE,
                          !.exitCode = x] : x \in ExitCodes}
          \cup {[a EXCEPT !.shellRet = WIN_TRUE, !.hProcess = HPROCESS,
                          !.waitRet = WAIT_FAILED, !.gecpRet = WIN_TRUE,
                          !.exitCode = STILL_ACTIVE]}
          : a \in start}

----------------------------------------------------------------------------
(* Unix launch, impl_unix.rs 8-22 *)

SUDO == <<"s", "u", "d", "o">>

DASH_K == <<"-", "k">>

DASH_DASH == <<"-", "-">>

NoArgv == <<>>

\* mutation of SudoArgv: the end-of-options marker is left out
SudoArgv_noMarker(c) ==
    <<SUDO>> \o (IF c.force_prompt THEN <<DASH_K>> ELSE <<>>)
             \o <<c.command>> \o c.args

\* process::Command::new("sudo"), then -k if force_prompt, then "--",
\* the program and the arguments (lines 11-15)
SudoArgv(c) ==
    <<SUDO>> \o (IF c.force_prompt THEN <<DASH_K>> ELSE <<>>)
             \o <<DASH_DASH>> \o <<c.command>> \o c.args

\* mutation of spawn_impl: spawn first, look for sudo only after a failure
spawn_impl_fallback(c, a) ==
    IF a.sudoOnPath /\ a.spawnOk
    THEN [calls |-> <<"spawn">>, argv |-> SudoArgv(c), result |-> OkChild]
    ELSE IF a.sudoOnPath
    THEN [calls |-> <<"spawn", "which">>, argv |-> SudoArgv(c),
          result |-> Err("os")]
    ELSE [calls |-> <<"spawn", "which">>, argv |-> SudoArgv(c),
          result |-> Err("NotFound")]

\* spawn_impl(cmd): which::which("sudo") first; Ok => build and spawn,
\* Err => io::ErrorKind::NotFound
spawn_impl(c, a) ==
    IF a.sudoOnPath
    THEN [calls |-> <<"which", "spawn">>, argv |-> SudoArgv(c),
          result |-> IF a.spawnOk THEN OkChild ELSE Err("os")]
    ELSE [calls |-> <<"which">>, argv |-> NoArgv,
          result |-> Err("NotFound")]

\* Child::wait on the handle spawn returned (lib.rs 361)
child_wait(a) ==
    IF a.childWaitOk THEN OkExitStatus(a.exitCode) ELSE Err("os")

----------------------------------------------------------------------------
(* Windows launch, impl_windows.rs 11-94 *)

NullPtr == [null |-> TRUE, at |-> <<>>]

Ptr(w) == [null |-> FALSE, at |-> w]

NoSei ==
    [fMask |-> {}, lpVerb |-> "none", lpFile |-> NullPtr,
     lpParameters |-> NullPtr, nShow |-> SW_NORMAL, lpDirectory |-> NullPtr,
     hProcess |-> NULL]

\* let mut sei = SHELLEXECUTEINFOW { ... } (lines 57-73), with hProcess as
\* ShellExecuteExW leaves it
ShellExecuteInfo(c, a) ==
    [fMask |-> {"SEE_MASK_NOASYNC", "SEE_MASK_NOCLOSEPROCESS"},
     lpVerb |-> a.lpVerb,
     lpFile |-> Ptr(encode_wide_nul(c.command)),
     lpParameters |-> Ptr(encode_wide_nul(BuildParams(c.args))),
     nShow |-> IF c.hide THEN SW_HIDE ELSE SW_NORMAL,
     lpDirectory |-> NullPtr,
     hProcess |-> a.hProcess]

\* mutation of runas_impl: CoUninitialize is skipped on the error return
runas_impl_earlyReturn(c, a) ==
    LET launched == a.shellRet = WIN_TRUE /\ a.hProcess # NULL
        succesfull == IF launched THEN a.gecpRet # 0 ELSE FALSE
    IN  [calls |-> <<"CoInitializeEx", "ShellExecuteExW">>
                   \o (IF launched
                       THEN <<"WaitForSingleObject", "GetExitCodeProcess">>
                       ELSE <<>>)
                   \o (IF succesfull /\ SUCCEEDED(a.hr)
                       THEN <<"CoUninitialize">> ELSE <<>>),
         argv |-> NoArgv,
         sei |-> ShellExecuteInfo(c, a),
         result |-> IF succesfull THEN OkExitStatus(a.exitCode)
                    ELSE Err("os")]

\* runas_impl(cmd): CoInitializeEx, ShellExecuteExW, then if a process
\* handle came back WaitForSingleObject(hProcess, INFINITE) and
\* GetExitCodeProcess, then CoUninitialize if the initialisation succeeded,
\* then Ok(ExitStatus::from_raw(code)) or Err(last_os_error())
runas_impl(c, a) ==
    LET launched == a.shellRet = WIN_TRUE /\ a.hProcess # NULL
        succesfull == IF launched THEN a.gecpRet # 0 ELSE FALSE
    IN  [calls |-> <<"CoInitializeEx", "ShellExecuteExW">>
                   \o (IF launched
                       THEN <<"WaitForSingleObject", "GetExitCodeProcess">>
                       ELSE <<>>)
                   \o (IF SUCCEEDED(a.hr) THEN <<"CoUninitialize">> ELSE <<>>),
         argv |-> NoArgv,
         sei |-> ShellExecuteInfo(c, a),
         result |-> IF succesfull THEN OkExitStatus(a.exitCode)
                    ELSE Err("os")]

----------------------------------------------------------------------------
(* Command::spawn and Command::status, lib.rs 331-362 *)

\* the OS answers one launch call can meet
Answers(plat, waits) ==
    IF plat = "unix" THEN UnixAnswers(waits) ELSE WindowsAnswers

\* the platform's launch function chosen by the cfg attributes of spawn.
\* impl_windows exports runas_impl only; it stands for the spawn_impl that
\* line 337 imports.
platform_spawn(plat, c, a) ==
    IF plat = "unix"
    THEN LET r == spawn_impl(c, a)
         IN  [calls |-> r.calls, argv |-> r.argv, sei |-> NoSei,
              result |-> r.result]
    ELSE runas_impl(c, a)

\* self.spawn()?.wait(): the ? returns an Err at once; a Child is waited
\* for; the ExitStatus runas_impl already holds is the status.
platform_status(plat, c, a) ==
    LET r == platform_spawn(plat, c, a)
    IN  IF r.result.kind = "Child"
        THEN [r EXCEPT !.calls = Append(@, "wait"), !.result = child_wait(a)]
        ELSE r

\* mutation of self_after_launch: the launch takes the arguments out of self
self_after_launch_taken(c) == [c EXCEPT !.args = <<>>]

\* spawn(&mut self) hands &self to the platform function, which only reads
self_after_launch(c) == c

Count(seq, x) == Cardinality({i \in 1..Len(seq) : seq[i] = x})

\* sessions left open by a call: CoInitializeEx opens one when it returns
\* S_OK or S_FALSE, each CoUninitialize closes one
ComDelta(a, log) ==
    (IF Count(log, "CoInitializeEx") = 1 /\ a.hr \in {S_OK, S_FALSE}
     THEN 1 ELSE 0) - Count(log, "CoUninitialize")

----------------------------------------------------------------------------
(* The builder as a state machine *)

Init ==
    /\ platform \in {"unix", "windows"}
    /\ cmd \in {new(p) : p \in Programs}
    /\ launches = 0
    /\ lastOp = "none"
    /\ env = NoAnswers
    /\ calls = <<>>
    /\ argv = NoArgv
    /\ sei = NoSei
    /\ result = NoResult
    /\ comOpen = 0
    /\ encPc = "off"
    /\ osArg = <<>>
    /\ encoded = <<>>
    /\ tokens = <<>>

\* lastOp, env, calls, argv, sei and result describe the launch call that
\* has just returned; the next builder call starts from none of them.
Kept ==
    /\ lastOp' = "none"
    /\ env' = NoAnswers
    /\ calls' = <<>>
    /\ argv' = NoArgv
    /\ sei' = NoSei
    /\ result' = NoResult
    /\ UNCHANGED <<platform, launches, comOpen, encPc, osArg, encoded, tokens>>

Arg(a) ==
    /\ Len(cmd.args) < MaxArgs
    /\ cmd' = arg(cmd, a)
    /\ Kept

Args(as) ==
    /\ Len(cmd.args) + Len(as) <= MaxArgs
    /\ cmd' = args(cmd, as)
    /\ Kept

CurrentDir(dir) ==
    /\ cmd' = current_dir(cmd, dir)
    /\ Kept

Show(val) ==
    /\ cmd' = show(cmd, val)
    /\ Kept

Gui(val) ==
    /\ cmd' = gui(cmd, val)
    /\ Kept

DisableForcePrompt ==
    /\ cmd' = disable_force_prompt(cmd)
    /\ Kept

Returned(op, a, r) ==
    /\ launches' = launches + 1
    /\ lastOp' = op
    /\ env' = a
    /\ calls' = r.calls
    /\ argv' = r.argv
    /\ sei' = r.sei
    /\ result' = r.result
    /\ comOpen' = comOpen + ComDelta(a, r.calls)
    /\ cmd' = self_after_launch(cmd)
    /\ UNCHANGED <<platform, encPc, osArg, encoded, tokens>>

Spawn ==
    /\ launches < MaxLaunches
    /\ \E a \in Answers(platform, FALSE) :
          Returned("spawn", a, platform_spawn(platform, cmd, a))

Status ==
    /\ launches < MaxLaunches
    /\ \E a \in Answers(platform, TRUE) :
          Returned("status", a, platform_status(platform, cmd, a))

Next ==
    \/ \E a \in ArgPool : Arg(a)
    \/ \E as \in SeqsUpTo(ArgPool, MaxArgs) : Args(as)
    \/ \E dir \in Dirs : CurrentDir(dir)
    \/ \E val \in BOOLEAN : Show(val)
    \/ \E val \in BOOLEAN : Gui(val)
    \/ DisableForcePrompt
    \/ Spawn
    \/ Status

Spec == Init /\ [][Next]_vars

----------------------------------------------------------------------------
(* The encoder and the tokenizer on one argument *)

InitEnc ==
    /\ platform = "windows"
    /\ cmd = new(<<"p">>)
    /\ launches = 0
    /\ lastOp = "none"
    /\ env = NoAnswers
    /\ calls = <<>>
    /\ argv = NoArgv
    /\ sei = NoSei
    /\ result = NoResult
    /\ comOpen = 0
    /\ encPc = "input"
    /\ osArg \in StringsUpTo(OsChars, MaxLen)
    /\ encoded = <<>>
    /\ tokens = <<>>

\* the loop of runas_impl run on the one-element argument list <<osArg>>
Encode ==
    /\ encPc = "input"
    /\ encoded' = BuildParams(<<osArg>>)
    /\ encPc' = "encoded"
    /\ UNCHANGED <<osArg, tokens>>
    /\ UNCHANGED launchVars

\* the launched program tokenizes the parameter string
Parse ==
    /\ encPc = "encoded"
    /\ tokens' = ParseCmdLine(encoded)
    /\ encPc' = "parsed"
    /\ UNCHANGED <<osArg, encoded>>
    /\ UNCHANGED launchVars

NextEnc == Encode \/ Parse

SpecEnc == InitEnc /\ [][NextEnc]_vars

----------------------------------------------------------------------------
(* Properties *)

Called(f) == \E i \in 1..Len(calls) : calls[i] = f

UnixLaunched == platform = "unix" /\ lastOp # "none"

WindowsLaunched == platform = "windows" /\ lastOp # "none"

\* C1: on Unix, when sudo is found, the argv handed to the spawn primitive
\* is sudo, then -k exactly when force_prompt is set, then --, then the
\* program, then the configured arguments in order, and nothing else.
C1_UnixArgv ==
    (UnixLaunched /\ Called("spawn")) =>
        LET k == IF cmd.force_prompt THEN 1 ELSE 0
        IN  /\ Len(argv) = 3 + k + Len(cmd.args)
            /\ argv[1] = SUDO
            /\ (cmd.force_prompt => argv[2] = DASH_K)
            /\ argv[2 + k] = DASH_DASH
            /\ argv[3 + k] = cmd.command
            /\ \A i \in 1..Len(cmd.args) : argv[3 + k + i] = cmd.args[i]

C1_Witness ==
    /\ UnixLaunched
    /\ Called("spawn")
    /\ ~cmd.force_prompt
    /\ cmd.command = <<"-", "k">>
    /\ cmd.args = << <<"a", SP, "b">>, <<>> >>
    /\ argv = <<SUDO, DASH_DASH, <<"-", "k">>, <<"a", SP, "b">>, <<>> >>

\* C2: on Unix, when sudo is not on the search path the call returns
\* NotFound and attempts no spawn; the search-path check is the first thing
\* any call does, and a spawn is attempted only after it succeeded.
C2_NotFoundBeforeSpawn ==
    UnixLaunched =>
        /\ calls[1] = "which"
        /\ \A i \in 2..Len(calls) : calls[i] # "which"
        /\ (~env.sudoOnPath =>
                result = Err("NotFound") /\ ~Called("spawn"))
        /\ (Called("spawn") => env.sudoOnPath)

C2_Witness ==
    /\ UnixLaunched
    /\ lastOp = "status"
    /\ ~env.sudoOnPath
    /\ calls = <<"which">>
    /\ result = Err("NotFound")

\* number of backslashes and double quotes among the first i-1 characters
EscapedBefore(t, i) == Cardinality({j \in 1..(i - 1) : t[j] \in {BS, DQ}})

\* C3: the encoding of one argument: the empty string gives two double
\* quotes; a non-empty string without space, tab or double quote is emitted
\* as it is; any other string is put between double quotes with every
\* backslash doubled, every double quote preceded by a backslash and every
\* other character as it is.
C3_Encoder ==
    (encPc # "input") =>
        LET t == to_string_lossy(osArg)
            e == SubSeq(encoded, 2, Len(encoded))
            special == \E i \in 1..Len(t) : t[i] \in {SP, TAB, DQ}
        IN  /\ (t = <<>> => e = <<DQ, DQ>>)
            /\ (t # <<>> /\ ~special => e = t)
            /\ (special =>
                  /\ Len(e) = Len(t) + EscapedBefore(t, Len(t) + 1) + 2
                  /\ e[1] = DQ
                  /\ e[Len(e)] = DQ
                  /\ \A i \in 1..Len(t) :
                        LET q == 1 + i + EscapedBefore(t, i)
                        IN  IF t[i] \in {BS, DQ}
                            THEN e[q] = BS /\ e[q + 1] = t[i]
                            ELSE e[q] = t[i])

C3_Witness ==
    /\ encPc = "encoded"
    /\ osArg = <<"a", DQ, "a">>
    /\ encoded = <<SP, DQ, "a", BS, DQ, "a", DQ>>

\* C4: a string without space, tab or double quote is encoded as itself
\* (the empty string, whose encoding C3 fixes as two double quotes, is read
\* as outside this clause), and a string containing a space comes back
\* unchanged, as the single argument, when its encoding is run through the
\* tokenizer.
C4_RoundTrip ==
    (encPc = "parsed") =>
        LET t == to_string_lossy(osArg)
        IN  /\ (t # <<>> /\ find_is_none(t)
                   => SubSeq(encoded, 2, Len(encoded)) = t)
            /\ ((\E i \in 1..Len(t) : t[i] = SP) => tokens = <<t>>)

\* C5: on Windows every launch call calls CoUninitialize exactly once, as
\* its last OS call, when CoInitializeEx succeeded and never when it
\* failed; no call returns with a session it opened still open.
C5_ComSessionScoped ==
    /\ comOpen = 0
    /\ WindowsLaunched =>
          /\ Count(calls, "CoInitializeEx") = 1
          /\ IF env.hr \in {S_OK, S_FALSE}
             THEN /\ Count(calls, "CoUninitialize") = 1
                  /\ calls[Len(calls)] = "CoUninitialize"
             ELSE Count(calls, "CoUninitialize") = 0

C5_Witness ==
    /\ WindowsLaunched
    /\ env.hr = S_FALSE
    /\ env.shellRet = WIN_TRUE
    /\ env.gecpRet = WIN_FALSE
    /\ result = Err("os")
    /\ calls = <<"CoInitializeEx", "ShellExecuteExW", "WaitForSingleObject",
                 "GetExitCodeProcess", "CoUninitialize">>

\* C6: on Windows the process handle is waited for before its exit code is
\* queried, and when the wait or the query fails the call returns an error,
\* never an exit status.
C6_WaitFailureIsError ==
    (WindowsLaunched /\ Called("WaitForSingleObject")) =>
        /\ \E i \in 1..Len(calls) :
              /\ calls[i] = "WaitForSingleObject"
              /\ i < Len(calls)
              /\ calls[i + 1] = "GetExitCodeProcess"
        /\ ((env.waitRet = WAIT_FAILED \/ env.gecpRet = WIN_FALSE)
               => result.kind = "Err")

\* C7: spawn() and status() leave every field of the Command as it was,
\* whether they succeed or fail, and what a launch hands to the OS is built
\* from the Command as the builder calls left it, whatever launches came
\* before.
C7_BuilderReuse ==
    [][launches' # launches =>
          /\ cmd' = cmd
          /\ (Called("spawn")' => argv' = SudoArgv(cmd'))
          /\ (Called("ShellExecuteExW")' =>
                 /\ sei'.lpFile = Ptr(encode_wide_nul(cmd'.command))
                 /\ sei'.lpParameters =
                        Ptr(encode_wide_nul(BuildParams(cmd'.args)))
                 /\ sei'.nShow = IF cmd'.hide THEN SW_HIDE ELSE SW_NORMAL)]_vars

C7_Witness ==
    /\ launches = 2
    /\ lastOp = "status"
    /\ result.kind = "Err"
    /\ Len(cmd.args) = 2
    /\ cmd.current_dir = Some(<<"d">>)
    /\ cmd.hide
    /\ ~cmd.force_prompt

\* C8: on every platform spawn() returns once the OS accepted the request:
\* it waits for no process, and what it returns on success is a handle to
\* wait on later.
C8_LaunchDoesNotWait ==
    (lastOp = "spawn") =>
        /\ ~Called("wait")
        /\ ~Called("WaitForSingleObject")
        /\ result.kind # "ExitStatus"

\* C9: on Windows the lpDirectory field carries the path set with
\* current_dir, and is null only when no working directory is configured.
C9_DirectoryPassed ==
    WindowsLaunched =>
        IF cmd.current_dir.some
        THEN sei.lpDirectory = Ptr(encode_wide_nul(cmd.current_dir.val))
        ELSE sei.lpDirectory = NullPtr

\* the encodings of the configured arguments, in order
Encodings(as) == [i \in 1..Len(as) |-> EscapeArg(to_string_lossy(as[i]))]

RECURSIVE JoinWithSpace(_)
JoinWithSpace(es) ==
    IF es = <<>> THEN <<>>
    ELSE IF Len(es) = 1 THEN es[1]
    ELSE es[1] \o <<SP>> \o JoinWithSpace(Tail(es))

\* C10 as claimed: the parameter string is the encodings with one space
\* between consecutive ones, no leading and no trailing space, and is empty
\* without arguments.
C10_JoinedNoLeadingSpace ==
    WindowsLaunched =>
        sei.lpParameters =
            Ptr(encode_wide_nul(JoinWithSpace(Encodings(cmd.args))))

\* C10 as amended: every encoding is preceded by exactly one space, so the
\* parameter string is one space, then the encodings with one space between
\* consecutive ones, with no trailing space, and is empty without arguments.
C10_EachPrecededBySpace ==
    WindowsLaunched =>
        LET es == Encodings(cmd.args)
            w == sei.lpParameters.at
        IN  /\ ~sei.lpParameters.null
            /\ w[Len(w)] = NUL
            /\ (es = <<>> => w = <<NUL>>)
            /\ (es # <<>> =>
                   SubSeq(w, 1, Len(w) - 1) = <<SP>> \o JoinWithSpace(es))

C10_Witness ==
    /\ WindowsLaunched
    /\ cmd.args = << <<>>, <<"a", SP, "b">> >>
    /\ sei.lpParameters.at =
          <<SP, DQ, DQ, SP, DQ, "a", SP, "b", DQ, NUL>>

====
